---- MODULE Spec2Model ----
(***************************************************************************)
(* Model of the Blorp deployment-config tool (src/src/App.tsx).            *)
(*                                                                         *)
(* A JavaScript string is a sequence of chunks; a chunk is a TLA+ string   *)
(* standing for a run of characters that the code never cuts ("Blorp",     *)
(* "https://lemmy.world") or for one significant character (",", " ", "/", *)
(* "+").  Splitting, trimming, joining, URL parsing and form encoding are  *)
(* computed chunk by chunk.                                                *)
(***************************************************************************)
EXTENDS Integers, Sequences, FiniteSets, TLC

VARIABLES name, defaultInstance, lockToDefaultInstance,
          instanceSelectionMode, configType,
          renderThrew, defaultInstanceValid, config, rendererCalled

store == <<name, defaultInstance, lockToDefaultInstance,
           instanceSelectionMode, configType>>

view == <<renderThrew, defaultInstanceValid, config, rendererCalled>>

vars == <<name, defaultInstance, lockToDefaultInstance,
          instanceSelectionMode, configType,
          renderThrew, defaultInstanceValid, config, rendererCalled>>

(* ---------------- bounds ---------------- *)

MaxNameLen == 1

MaxInstLen == 3

(* ---------------- enumerations and input alphabets ---------------- *)

DEFAULT_FIRST == "default_first"

DEFAULT_RANDOM == "default_random"

InstanceSelectionMode == {DEFAULT_FIRST, DEFAULT_RANDOM}

DOCKER_COMMAND == "Docker Command"

DOCKERFILE == "Dockerfile"

DOCKER_COMPOSE == "Docker Compose"

KUBERNETES == "Kubernetes"

ConfigType == {DOCKER_COMMAND, DOCKERFILE, DOCKER_COMPOSE, KUBERNETES}

SP == " "

COMMA == ","

SLASH == "/"

ORIGIN == "https://lemmy.world"

WORD == "x"

NameChars == {"Blorp", SP, "+"}

InstChars == {ORIGIN, WORD, SLASH, COMMA, SP}

(* ---------------- String.prototype helpers ---------------- *)

RECURSIVE trimStart(_)
trimStart(s) ==
  IF s = <<>> THEN <<>>
  ELSE IF Head(s) = SP THEN trimStart(Tail(s)) ELSE s

RECURSIVE trimEnd(_)
trimEnd(s) ==
  IF s = <<>> THEN <<>>
  ELSE IF s[Len(s)] = SP THEN trimEnd(SubSeq(s, 1, Len(s) - 1)) ELSE s

trim(s) == trimEnd(trimStart(s))

RECURSIVE splitFrom(_, _)
splitFrom(s, cur) ==
  IF s = <<>> THEN <<cur>>
  ELSE IF Head(s) = COMMA THEN <<cur>> \o splitFrom(Tail(s), <<>>)
  ELSE splitFrom(Tail(s), Append(cur, Head(s)))

split(s) == splitFrom(s, <<>>)

RECURSIVE join(_)
join(segs) ==
  IF segs = <<>> THEN <<>>
  ELSE IF Len(segs) = 1 THEN segs[1]
  ELSE segs[1] \o <<COMMA>> \o join(Tail(segs))

mapTrim(segs) == [i \in 1..Len(segs) |-> trim(segs[i])]

(* ---------------- new URL(instance) ---------------- *)
(* The platform URL parser on a chunk sequence.  It strips leading and     *)
(* trailing spaces itself; the scheme is the run of WORD chunks ending in  *)
(* the "https:" of an ORIGIN chunk (special when it is exactly "https");   *)
(* the host runs to the first "/" and may not contain a space; the rest is *)
(* the path, in which a space is percent-encoded.                          *)

URLStrip(s) == trimEnd(trimStart(s))

RECURSIVE schemeIdx(_, _)
schemeIdx(t, i) ==
  IF i > Len(t) THEN 0
  ELSE IF t[i] = ORIGIN THEN i
  ELSE IF t[i] = WORD THEN schemeIdx(t, i + 1)
  ELSE 0

RECURSIVE hostEnd(_, _)
hostEnd(t, k) ==
  IF k > Len(t) THEN k
  ELSE IF t[k] = WORD THEN hostEnd(t, k + 1)
  ELSE k

encodePath(p) == [i \in 1..Len(p) |-> IF p[i] = SP THEN "%20" ELSE p[i]]

TypeError == [thrown |-> TRUE, pathname |-> <<>>]

newURL(s) ==
  LET t == URLStrip(s)
      i == schemeIdx(t, 1)
      k == hostEnd(t, i + 1)
      special == (i = 1)
  IN  IF i = 0 THEN TypeError
      ELSE IF k > Len(t)
        THEN [thrown |-> FALSE,
              pathname |-> IF special THEN <<SLASH>> ELSE <<>>]
      ELSE IF t[k] = SP THEN TypeError
      ELSE IF t[k] = ORIGIN
        THEN [thrown |-> FALSE,
              pathname |-> <<SLASH, SLASH, "lemmy.world">>
                             \o encodePath(SubSeq(t, k + 1, Len(t)))]
      ELSE [thrown |-> FALSE,
            pathname |-> encodePath(SubSeq(t, k, Len(t)))]

ChunkWidth(c) ==
  CASE c = ORIGIN -> 19
    [] c = "lemmy.world" -> 11
    [] c = "%20" -> 3
    [] OTHER -> 1

RECURSIVE length(_)
length(s) == IF s = <<>> THEN 0 ELSE ChunkWidth(Head(s)) + length(Tail(s))

(* ---------------- validation ---------------- *)
(* The outcome of a call is a record: thrown says whether an exception     *)
(* left the call, value is what it returned otherwise.                     *)

Returned(v) == [thrown |-> FALSE, value |-> v]

Threw == [thrown |-> TRUE, value |-> FALSE]

RECURSIVE validatorLoop(_, _)
validatorLoop(instances, i) ==
  IF i > Len(instances) THEN Returned(TRUE)
  ELSE LET url == newURL(instances[i])
       IN  IF url.thrown THEN Threw
           ELSE IF length(url.pathname) > 1 THEN Threw
           ELSE validatorLoop(instances, i + 1)

RECURSIVE skipEmptyLoop(_, _)
skipEmptyLoop(instances, i) ==
  IF i > Len(instances) THEN Returned(TRUE)
  ELSE IF trim(instances[i]) = <<>> THEN skipEmptyLoop(instances, i + 1)
  ELSE LET url == newURL(instances[i])
       IN  IF url.thrown THEN Threw
           ELSE IF length(url.pathname) > 1 THEN Threw
           ELSE skipEmptyLoop(instances, i + 1)

instanceValidator_skipEmpty(val) == skipEmptyLoop(split(val), 1)

instanceValidator(val) == validatorLoop(split(val), 1)

(* attempt is the outcome of validator(value) inside the try block *)
validateValue(attempt) ==
  IF attempt.thrown THEN Returned(FALSE) ELSE attempt

(* ---------------- renderers ---------------- *)
(* Artifact text is a chunk sequence: the template's literal text cut into *)
(* chunks around the environment keys and the quotes, with the values      *)
(* interpolated between the quotes.  The template indentation that dedent  *)
(* removes is already left out of the literal chunks; dedent's final trim  *)
(* of the text is computed.                                                *)

Q == "\""

NL == "\n"

K_NAME == "REACT_APP_NAME"

K_INSTANCE == "REACT_APP_DEFAULT_INSTANCE"

K_LOCK == "REACT_APP_LOCK_TO_DEFAULT_INSTANCE"

K_MODE == "REACT_APP_INSTANCE_SELECTION_MODE"

IMAGE == "christianjuth/blorp:latest"

Blank == {SP, NL, "  ", "    "}

RECURSIVE textTrimStart(_)
textTrimStart(t) ==
  IF t = <<>> THEN <<>>
  ELSE IF Head(t) \in Blank THEN textTrimStart(Tail(t)) ELSE t

RECURSIVE textTrimEnd(_)
textTrimEnd(t) ==
  IF t = <<>> THEN <<>>
  ELSE IF t[Len(t)] \in Blank THEN textTrimEnd(SubSeq(t, 1, Len(t) - 1)) ELSE t

dedent(t) == textTrimEnd(textTrimStart(t))

normalizeInstances_noTrim(raw) == join(split(raw))

normalizeInstances(raw) == join(mapTrim(split(raw)))

lockDigit(b) == IF b THEN "1" ELSE "0"

getDockerCommand(c) ==
  LET instances == normalizeInstances(c.REACT_APP_DEFAULT_INSTANCE)
  IN  dedent(
        <<NL,
          "# pull the latest Blorp image\ndocker pull christianjuth/blorp:latest\n\n# run it on port 8080 (host -> container), passing any runtime env-vars you need\ndocker run -d \\ \n  --name blorp \\ \n  -p 8080:80 \\ \n  -e ",
          K_NAME, "=", Q>> \o trim(c.REACT_APP_NAME) \o <<Q,
          " \\ \n  -e ", K_INSTANCE, "=", Q>> \o instances \o <<Q,
          " \\ \n  -e ", K_LOCK, "=", Q,
          lockDigit(c.REACT_APP_LOCK_TO_DEFAULT_INSTANCE), Q, " \\ \n  ">>
        \o (IF c.hasMultipleInstances
              THEN <<"-e ", K_MODE, "=", Q,
                     c.REACT_APP_INSTANCE_SELECTION_MODE, Q, "  \n  ">>
              ELSE <<>>)
        \o <<IMAGE, NL, "  ">>)

getDockerfile(c) ==
  LET instances == normalizeInstances(c.REACT_APP_DEFAULT_INSTANCE)
      lockVal == lockDigit(c.REACT_APP_LOCK_TO_DEFAULT_INSTANCE)
  IN  textTrimEnd(textTrimStart(dedent(
        <<NL, "FROM christianjuth/blorp:latest\n\nENV ",
          K_NAME, "=", Q>> \o trim(c.REACT_APP_NAME) \o <<Q,
          "\nENV ", K_INSTANCE, "=", Q>> \o instances \o <<Q,
          "\nENV ", K_LOCK, "=", Q, lockVal, Q, NL>>
        \o (IF c.hasMultipleInstances
              THEN <<"ENV ", K_MODE, "=", Q,
                     c.REACT_APP_INSTANCE_SELECTION_MODE, Q>>
              ELSE <<>>)
        \o <<"\n\nEXPOSE 80\n# Build:  docker build -t blorp-custom .\n# Run:    docker run -d --name blorp -p 8080:80 blorp-custom",
             NL, "  ">>)))

getCompose_modeAlways(c) ==
  LET instances == normalizeInstances(c.REACT_APP_DEFAULT_INSTANCE)
      lockVal == lockDigit(c.REACT_APP_LOCK_TO_DEFAULT_INSTANCE)
  IN  <<"version: \"3.8\"\n\nservices:\n  blorp:\n    environment:\n      ",
        K_NAME, ": ", Q>> \o trim(c.REACT_APP_NAME) \o <<Q,
        "\n      ", K_INSTANCE, ": ", Q>> \o instances \o <<Q,
        "\n      ", K_LOCK, ": ", Q, lockVal, Q,
        "\n      ", K_MODE, ": ", Q, c.REACT_APP_INSTANCE_SELECTION_MODE, Q>>

getCompose(c) ==
  LET instances == normalizeInstances(c.REACT_APP_DEFAULT_INSTANCE)
      lockVal == lockDigit(c.REACT_APP_LOCK_TO_DEFAULT_INSTANCE)
      maybeMode == IF c.hasMultipleInstances
                     THEN <<"\n      ", K_MODE, ": ", Q,
                            c.REACT_APP_INSTANCE_SELECTION_MODE, Q>>
                     ELSE <<>>
  IN  textTrimEnd(textTrimStart(dedent(
        <<NL,
          "version: \"3.8\"\n\nservices:\n  blorp:\n    image: christianjuth/blorp:latest\n    container_name: blorp\n    ports:\n      - \"8080:80\"\n    environment:\n      ",
          K_NAME, ": ", Q>> \o trim(c.REACT_APP_NAME) \o <<Q,
          "\n      ", K_INSTANCE, ": ", Q>> \o instances \o <<Q,
          "\n      ", K_LOCK, ": ", Q, lockVal, Q>>
        \o maybeMode
        \o <<NL, "  ">>)))

getKube(c) ==
  LET instances == normalizeInstances(c.REACT_APP_DEFAULT_INSTANCE)
      lockVal == lockDigit(c.REACT_APP_LOCK_TO_DEFAULT_INSTANCE)
      maybeMode == IF c.hasMultipleInstances
                     THEN dedent(<<NL, "- name: ", K_MODE, "\n  value: ", Q,
                                   c.REACT_APP_INSTANCE_SELECTION_MODE, Q>>)
                     ELSE <<>>
  IN  textTrimEnd(textTrimStart(dedent(
        <<NL,
          "apiVersion: apps/v1\nkind: Deployment\nmetadata:\n  name: blorp\n  labels:\n    app: blorp\nspec:\n  replicas: 1\n  selector:\n    matchLabels:\n      app: blorp\n  template:\n    metadata:\n      labels:\n        app: blorp\n    spec:\n      containers:\n        - name: blorp\n          image: christianjuth/blorp:latest\n          ports:\n            - containerPort: 80\n          env:\n            - name: ",
          K_NAME, "\n              value: ", Q>>
        \o trim(c.REACT_APP_NAME) \o <<Q,
          "\n            - name: ", K_INSTANCE, "\n              value: ", Q>>
        \o instances \o <<Q,
          "\n            - name: ", K_LOCK, "\n              value: ", Q,
          lockVal, Q, "\n            ">>
        \o maybeMode
        \o <<"\n---\napiVersion: v1\nkind: Service\nmetadata:\n  name: blorp\n  labels:\n    app: blorp\nspec:\n  selector:\n    app: blorp\n  type: NodePort\n  ports:\n    - name: http\n      port: 80\n      targetPort: 80\n      nodePort: 30080",
             NL, "  ">>)))

(* ---------------- URLSearchParams ---------------- *)
(* A URLSearchParams object is its list of <<key, value>> pairs.           *)

EQ == "="

AMP == "&"

RECURSIVE dropKey(_, _)
dropKey(list, k) ==
  IF list = <<>> THEN <<>>
  ELSE IF Head(list)[1] = k THEN dropKey(Tail(list), k)
  ELSE <<Head(list)>> \o dropKey(Tail(list), k)

RECURSIVE paramsSet(_, _, _)
paramsSet(list, k, v) ==
  IF list = <<>> THEN << <<k, v>> >>
  ELSE IF Head(list)[1] = k THEN << <<k, v>> >> \o dropKey(Tail(list), k)
  ELSE <<Head(list)>> \o paramsSet(Tail(list), k, v)

(* application/x-www-form-urlencoded byte serializer, chunk by chunk *)
formEncode_plusUnescaped(c) ==
  CASE c = SP -> "+"
    [] c = AMP -> "%26"
    [] c = EQ -> "%3D"
    [] c = COMMA -> "%2C"
    [] c = SLASH -> "%2F"
    [] c = ORIGIN -> "https%3A%2F%2Flemmy.world"
    [] OTHER -> c

formEncode(c) ==
  CASE c = SP -> "+"
    [] c = "+" -> "%2B"
    [] c = AMP -> "%26"
    [] c = EQ -> "%3D"
    [] c = COMMA -> "%2C"
    [] c = SLASH -> "%2F"
    [] c = ORIGIN -> "https%3A%2F%2Flemmy.world"
    [] OTHER -> c

serialize(v) == [i \in 1..Len(v) |-> formEncode(v[i])]

RECURSIVE paramsToString(_)
paramsToString(list) ==
  IF list = <<>> THEN <<>>
  ELSE serialize(Head(list)[1]) \o <<EQ>> \o serialize(Head(list)[2])
       \o (IF Len(list) = 1 THEN <<>>
           ELSE <<AMP>> \o paramsToString(Tail(list)))

demoParamsOf_gated(n, d, l, m) ==
  LET p1 == paramsSet(<<>>, <<K_NAME>>, n)
      p2 == paramsSet(p1, <<K_INSTANCE>>, d)
      p3 == paramsSet(p2, <<K_LOCK>>, <<lockDigit(l)>>)
  IN  paramsToString(IF Len(split(d)) > 1
                       THEN paramsSet(p3, <<K_MODE>>, <<m>>) ELSE p3)

demoParamsOf(n, d, l, m) ==
  LET p0 == <<>>
      p1 == paramsSet(p0, <<K_NAME>>, n)
      p2 == paramsSet(p1, <<K_INSTANCE>>, d)
      p3 == paramsSet(p2, <<K_LOCK>>, <<lockDigit(l)>>)
      p4 == paramsSet(p3, <<K_MODE>>, <<m>>)
  IN  paramsToString(p4)

(* ---------------- App (one render) ---------------- *)

hasMultipleInstancesOf_stringLength(d) == Len(d) > 1

hasMultipleInstancesOf(d) == Len(split(d)) > 1

configOf(n, d, l, m) ==
  [REACT_APP_NAME |-> n,
   REACT_APP_DEFAULT_INSTANCE |-> d,
   REACT_APP_LOCK_TO_DEFAULT_INSTANCE |-> l,
   REACT_APP_INSTANCE_SELECTION_MODE |-> m,
   hasMultipleInstances |-> hasMultipleInstancesOf(d)]

codeOf(ct, c) ==
  CASE ct = DOCKER_COMMAND -> getDockerCommand(c)
    [] ct = DOCKERFILE -> getDockerfile(c)
    [] ct = DOCKER_COMPOSE -> getCompose(c)
    [] ct = KUBERNETES -> getKube(c)

syntaxOf(ct) ==
  CASE ct = DOCKER_COMMAND -> "bash"
    [] ct = DOCKERFILE -> "dockerfile"
    [] ct = DOCKER_COMPOSE -> "yaml"
    [] ct = KUBERNETES -> "yaml"

NoRenderer == "none"

defaultInstanceValidOf_noCatch(d) == instanceValidator(d)

defaultInstanceValidOf(d) == validateValue(instanceValidator(d))

App(n, d, l, m, ct) ==
  LET valid == defaultInstanceValidOf(d)
  IN  IF valid.thrown
        THEN [threw |-> TRUE, defaultInstanceValid |-> FALSE,
              config |-> configOf(n, d, l, m), rendererCalled |-> NoRenderer]
        ELSE [threw |-> FALSE, defaultInstanceValid |-> valid.value,
              config |-> configOf(n, d, l, m), rendererCalled |-> ct]

Rendered(n, d, l, m, ct) ==
  \E a \in {App(n, d, l, m, ct)} :
      /\ renderThrew' = a.threw
      /\ defaultInstanceValid' = a.defaultInstanceValid
      /\ config' = a.config
      /\ rendererCalled' = a.rendererCalled

(* What the last render computed from the state it left behind. *)

code == IF rendererCalled = NoRenderer THEN <<>>
        ELSE codeOf(rendererCalled, config)

syntax == IF rendererCalled = NoRenderer THEN "bash"
          ELSE syntaxOf(rendererCalled)

demoParams ==
  IF renderThrew THEN <<>>
  ELSE demoParamsOf(name, defaultInstance, lockToDefaultInstance,
                    instanceSelectionMode)

(* ---------------- the store and its setters ---------------- *)

Init ==
  /\ name = <<"Blorp">>
  /\ defaultInstance = <<ORIGIN>>
  /\ lockToDefaultInstance = FALSE
  /\ instanceSelectionMode = DEFAULT_FIRST
  /\ configType = DOCKER_COMMAND
  /\ \E a \in {App(<<"Blorp">>, <<ORIGIN>>, FALSE,
                    DEFAULT_FIRST, DOCKER_COMMAND)} :
         /\ renderThrew = a.threw
         /\ defaultInstanceValid = a.defaultInstanceValid
         /\ config = a.config
         /\ rendererCalled = a.rendererCalled

setName(v) ==
  /\ name' = v
  /\ UNCHANGED <<defaultInstance, lockToDefaultInstance,
                 instanceSelectionMode, configType>>
  /\ Rendered(name', defaultInstance', lockToDefaultInstance',
              instanceSelectionMode', configType')

setDefaultInstance(v) ==
  /\ defaultInstance' = v
  /\ UNCHANGED <<name, lockToDefaultInstance,
                 instanceSelectionMode, configType>>
  /\ Rendered(name', defaultInstance', lockToDefaultInstance',
              instanceSelectionMode', configType')

setLockToDefaultInstance_resetsMode(v) ==
  /\ lockToDefaultInstance' = v
  /\ instanceSelectionMode' = DEFAULT_FIRST
  /\ UNCHANGED <<name, defaultInstance, configType>>
  /\ Rendered(name', defaultInstance', lockToDefaultInstance',
              instanceSelectionMode', configType')

setLockToDefaultInstance(v) ==
  /\ lockToDefaultInstance' = v
  /\ UNCHANGED <<name, defaultInstance, instanceSelectionMode, configType>>
  /\ Rendered(name', defaultInstance', lockToDefaultInstance',
              instanceSelectionMode', configType')

setInstanceSelectionMode(v) ==
  /\ instanceSelectionMode' = v
  /\ UNCHANGED <<name, defaultInstance, lockToDefaultInstance, configType>>
  /\ Rendered(name', defaultInstance', lockToDefaultInstance',
              instanceSelectionMode', configType')

setConfigType(v) ==
  /\ configType' = v
  /\ UNCHANGED <<name, defaultInstance, lockToDefaultInstance,
                 instanceSelectionMode>>
  /\ Rendered(name', defaultInstance', lockToDefaultInstance',
              instanceSelectionMode', configType')

(* The values an <Input> hands to onChange after one keystroke: the        *)
(* current text with one chunk typed at the end, or with its last chunk    *)
(* deleted.                                                                *)
Keystrokes(s, A, max) ==
  {Append(s, c) : c \in IF Len(s) < max THEN A ELSE {}}
    \cup (IF s = <<>> THEN {} ELSE {SubSeq(s, 1, Len(s) - 1)})

EditName ==
  \E v \in Keystrokes(name, NameChars, MaxNameLen) : setName(v)

EditDefaultInstance ==
  \E v \in Keystrokes(defaultInstance, InstChars, MaxInstLen) :
    setDefaultInstance(v)

ToggleLock == \E v \in BOOLEAN : setLockToDefaultInstance(v)

SelectMode == \E v \in InstanceSelectionMode : setInstanceSelectionMode(v)

SelectTab == \E v \in ConfigType : setConfigType(v)

Next ==
  \/ EditName
  \/ EditDefaultInstance
  \/ ToggleLock
  \/ SelectMode
  \/ SelectTab

Spec == Init /\ [][Next]_vars

(***************************************************************************)
(* Properties                                                              *)
(***************************************************************************)

(* ---- vocabulary of the properties, stated on positions of the text ---- *)

(* a..b is one segment of raw: a maximal range without a comma *)
IsSegment(raw, a, b) ==
  /\ a \in 1..(Len(raw) + 1)
  /\ b \in (a - 1)..Len(raw)
  /\ a = 1 \/ raw[a - 1] = COMMA
  /\ b = Len(raw) \/ raw[b + 1] = COMMA
  /\ \A j \in a..b : raw[j] # COMMA

Segments(raw) ==
  {ab \in (1..(Len(raw) + 1)) \X (0..Len(raw)) : IsSegment(raw, ab[1], ab[2])}

EndpointCount(raw) == Cardinality({i \in 1..Len(raw) : raw[i] = COMMA}) + 1

BlankRange(raw, a, b) == \A j \in a..b : raw[j] = SP

(* a..b spells scheme://host with an optional single "/" and nothing else *)
OriginRange(raw, a, b) ==
  \E i \in a..b :
    /\ raw[i] = ORIGIN
    /\ \A j \in a..(i - 1) : raw[j] = WORD
    /\ \/ \A j \in (i + 1)..b : raw[j] = WORD
       \/ /\ b > i
          /\ raw[b] = SLASH
          /\ \A j \in (i + 1)..(b - 1) : raw[j] = WORD

(* a..b is, apart from surrounding spaces, a root-only absolute URL *)
RootOnlyURL(raw, a, b) ==
  \E c \in a..b : \E e \in c..b :
    /\ BlankRange(raw, a, c - 1)
    /\ BlankRange(raw, e + 1, b)
    /\ OriginRange(raw, c, e)

Count(t, c) == Cardinality({i \in 1..Len(t) : t[i] = c})

(* the text between the first pair of quotes after the key *)
EmbeddedValue(t, key) ==
  LET i == CHOOSE i \in 1..Len(t) : t[i] = key
      o == CHOOSE o \in (i + 1)..Len(t) :
             t[o] = Q /\ \A j \in (i + 1)..(o - 1) : t[j] # Q
      e == CHOOSE e \in (o + 1)..Len(t) :
             t[e] = Q /\ \A j \in (o + 1)..(e - 1) : t[j] # Q
  IN  SubSeq(t, o + 1, e - 1)

(* a space of raw that has a non-space chunk of its own segment on both sides *)
InnerSpace(raw, i) ==
  /\ \E j \in 1..(i - 1) :
       raw[j] \notin {SP, COMMA} /\ \A k \in j..i : raw[k] # COMMA
  /\ \E j \in (i + 1)..Len(raw) :
       raw[j] \notin {SP, COMMA} /\ \A k \in i..j : raw[k] # COMMA

RECURSIVE WithoutOuterSpaces(_, _)
WithoutOuterSpaces(raw, i) ==
  IF i > Len(raw) THEN <<>>
  ELSE (IF raw[i] # SP \/ InnerSpace(raw, i) THEN <<raw[i]>> ELSE <<>>)
       \o WithoutOuterSpaces(raw, i + 1)

TrimmedJoined(raw) == WithoutOuterSpaces(raw, 1)

(* standard query-string decoding *)
RECURSIVE SplitAt(_, _, _)
SplitAt(t, sep, cur) ==
  IF t = <<>> THEN <<cur>>
  ELSE IF Head(t) = sep THEN <<cur>> \o SplitAt(Tail(t), sep, <<>>)
  ELSE SplitAt(Tail(t), sep, Append(cur, Head(t)))

formDecode(c) ==
  CASE c = "+" -> SP
    [] c = "%2B" -> "+"
    [] c = "%26" -> AMP
    [] c = "%3D" -> EQ
    [] c = "%2C" -> COMMA
    [] c = "%2F" -> SLASH
    [] c = "https%3A%2F%2Flemmy.world" -> ORIGIN
    [] OTHER -> c

DecodeText(t) == [i \in 1..Len(t) |-> formDecode(t[i])]

DecodePair(t) ==
  LET i == IF \E j \in 1..Len(t) : t[j] = EQ
             THEN CHOOSE j \in 1..Len(t) :
                    t[j] = EQ /\ \A k \in 1..(j - 1) : t[k] # EQ
             ELSE Len(t) + 1
  IN  <<DecodeText(SubSeq(t, 1, i - 1)), DecodeText(SubSeq(t, i + 1, Len(t)))>>

DecodeQuery(q) ==
  IF q = <<>> THEN <<>>
  ELSE LET parts == SplitAt(q, AMP, <<>>)
       IN  [i \in 1..Len(parts) |-> DecodePair(parts[i])]

Keys(d) == [i \in 1..Len(d) |-> d[i][1]]

Value(d, key) == d[CHOOSE i \in 1..Len(d) : d[i][1] = <<key>>][2]

HasKey(d, key) == \E i \in 1..Len(d) : d[i][1] = <<key>>

(* ---- C1 ---- *)

(* C1, as stated: the endpoint field is reported valid exactly when every  *)
(* segment that is not blank is a root-only absolute URL; blank segments   *)
(* are skipped.                                                            *)
C1_BlankSegmentsSkipped ==
  defaultInstanceValid =
    (\A ab \in Segments(defaultInstance) :
       \/ BlankRange(defaultInstance, ab[1], ab[2])
       \/ RootOnlyURL(defaultInstance, ab[1], ab[2]))

(* C1, amended: the endpoint field is reported valid exactly when every    *)
(* segment between commas, blank ones included, is a root-only absolute    *)
(* URL; a blank segment makes the field invalid.                           *)
C1_EverySegmentChecked ==
  defaultInstanceValid =
    (\A ab \in Segments(defaultInstance) :
       RootOnlyURL(defaultInstance, ab[1], ab[2]))

C1_Witness ==
  /\ defaultInstance = <<ORIGIN, COMMA>>
  /\ defaultInstanceValid = FALSE

(* ---- C2 ---- *)

(* C2: validation never lets an exception out of the render; its result is *)
(* a boolean, and it is false whenever some segment fails to parse or has  *)
(* a path beyond the root.                                                 *)
C2_ValidatorNeverThrows ==
  /\ renderThrew = FALSE
  /\ defaultInstanceValid \in BOOLEAN
  /\ (\E ab \in Segments(defaultInstance) :
        ~RootOnlyURL(defaultInstance, ab[1], ab[2]))
       => defaultInstanceValid = FALSE

C2_Witness ==
  /\ defaultInstance = <<ORIGIN, SLASH, WORD>>
  /\ renderThrew = FALSE
  /\ defaultInstanceValid = FALSE

(* ---- C3 ---- *)

(* C3: with one endpoint the artifact of the selected format, whichever of *)
(* the four it is, does not contain the selection-mode key; with two or    *)
(* more endpoints it contains it exactly once.                             *)
C3_ConditionalEmission ==
  rendererCalled # NoRenderer =>
    Count(code, K_MODE) =
      (IF EndpointCount(defaultInstance) = 1 THEN 0 ELSE 1)

C3_Witness ==
  /\ EndpointCount(defaultInstance) = 2
  /\ rendererCalled = KUBERNETES
  /\ Count(code, K_MODE) = 1

(* ---- C4 ---- *)

(* C4: a renderer is called only when the endpoint field is reported valid *)
C4_RendererOnlyWhenValid ==
  rendererCalled # NoRenderer => defaultInstanceValid = TRUE

(* ---- C5 ---- *)

(* C5: the share link always carries exactly the four keys, in the fixed   *)
(* order, the selection-mode key also with a single endpoint, and the lock *)
(* value is "1" for true and "0" for false.                                *)
C5_FourKeysInOrder ==
  LET d == DecodeQuery(demoParams)
  IN  /\ Keys(d) = << <<K_NAME>>, <<K_INSTANCE>>, <<K_LOCK>>, <<K_MODE>> >>
      /\ Value(d, K_LOCK) = (IF lockToDefaultInstance THEN <<"1">> ELSE <<"0">>)

C5_Witness ==
  LET d == DecodeQuery(demoParams)
  IN  /\ EndpointCount(defaultInstance) = 1
      /\ lockToDefaultInstance = TRUE
      /\ HasKey(d, K_MODE)
      /\ Value(d, K_LOCK) = <<"1">>

(* ---- C6 ---- *)

(* C6: decoding the share link gives back the name, the endpoint field,    *)
(* the lock flag and the selection mode that were encoded.                 *)
C6_RoundTrip ==
  LET d == DecodeQuery(demoParams)
  IN  /\ Value(d, K_NAME) = name
      /\ Value(d, K_INSTANCE) = defaultInstance
      /\ (Value(d, K_LOCK) = <<"1">>) = lockToDefaultInstance
      /\ Value(d, K_MODE) = <<instanceSelectionMode>>

C6_Witness ==
  /\ name = <<"+">>
  /\ defaultInstance = <<ORIGIN, COMMA, SP>>
  /\ lockToDefaultInstance = TRUE
  /\ instanceSelectionMode = DEFAULT_RANDOM
  /\ Value(DecodeQuery(demoParams), K_NAME) = <<"+">>

(* ---- C7 ---- *)

(* C7: the endpoints value embedded in the artifact of the selected format, *)
(* whichever of the four it is, is the endpoint field with the spaces      *)
(* around every segment removed, commas and order kept.                    *)
C7_EndpointsTrimmedJoined ==
  rendererCalled # NoRenderer =>
    EmbeddedValue(code, K_INSTANCE) = TrimmedJoined(defaultInstance)

C7_Witness ==
  /\ defaultInstance = <<SP, COMMA, ORIGIN>>
  /\ rendererCalled = DOCKERFILE
  /\ EmbeddedValue(code, K_INSTANCE) = <<COMMA, ORIGIN>>

(* ---- C8 ---- *)

(* C8: the flag handed to the renderers is always the one derived from the *)
(* current endpoint field: more than one endpoint.                         *)
C8_FlagNeverDrifts ==
  /\ config.REACT_APP_DEFAULT_INSTANCE = defaultInstance
  /\ config.hasMultipleInstances = (EndpointCount(defaultInstance) > 1)

C8_Witness ==
  /\ defaultInstance = <<ORIGIN, COMMA, ORIGIN>>
  /\ rendererCalled # NoRenderer
  /\ config.hasMultipleInstances = TRUE

(* ---- C9 ---- *)

OnlyFieldChanged(i) == \A j \in 1..5 : j # i => store'[j] = store[j]

(* C9: the settings start at the defaults, every step changes at most one  *)
(* settings field, and the selection mode is always one of the two modes.  *)
C9_FieldWiseMutation ==
  /\ store = << <<"Blorp">>, <<ORIGIN>>, FALSE, DEFAULT_FIRST, DOCKER_COMMAND >>
  /\ [](instanceSelectionMode \in InstanceSelectionMode)
  /\ [][\E i \in 1..5 : OnlyFieldChanged(i)]_vars

C9_Witness ==
  /\ name = <<SP>>
  /\ lockToDefaultInstance = TRUE
  /\ instanceSelectionMode = DEFAULT_RANDOM
  /\ configType = DOCKER_COMPOSE

(* ---- C10 ---- *)

(* C10: the share link carries the same name and endpoints values as the   *)
(* renderers embed: the trimmed name and the trimmed, joined endpoints.    *)
C10_LinkMatchesArtifact ==
  rendererCalled # NoRenderer =>
    LET d == DecodeQuery(demoParams)
    IN  /\ Value(d, K_NAME) = EmbeddedValue(code, K_NAME)
        /\ Value(d, K_INSTANCE) = EmbeddedValue(code, K_INSTANCE)

====
